---- MODULE Spec2Model ----
(***************************************************************************)
(* Model of the attestation dispatcher of webauthn_rp (attesters.py), of   *)
(* the data model (types.py) and of the registrar contract (registrars.py).*)
(*                                                                         *)
(* Python values are records tagged with their runtime type in the field   *)
(* "py"; attribute access, bytes concatenation and single dispatch follow  *)
(* the Python semantics (AttributeError, TypeError, MRO walk).  The        *)
(* cryptography library is modelled ideally: a PEM byte string parses to   *)
(* the certificate it encodes, and a signature verifies exactly under the  *)
(* key, data and hash it was made with.                                    *)
(***************************************************************************)
EXTENDS Integers, Sequences, FiniteSets, TLC

\* The arguments, the outcome and the library calls of a call of attest; the
\* last operation on the data model or the registrar (op) with what it
\* returned, raised or built (ret); where the caller is (pc); the calls the
\* caller has completed before the current one (history); and the registrar
\* object the caller holds (registrar).
VARIABLES arg_att_stmt, arg_att_obj, arg_auth_data, arg_client_data_hash,
          outcome, calls, pc, op, ret, history, registrar

vars == <<arg_att_stmt, arg_att_obj, arg_auth_data, arg_client_data_hash,
          outcome, calls, pc, op, ret, history, registrar>>

\* Longest certificate list (x5c) of a statement.
MaxX5c == 2

\* Most calls a caller completes before the current one.
MaxCalls == 2

(***************************************************************************)
(* Python values                                                           *)
(***************************************************************************)
None == [py |-> "NoneType"]

Bytes(s) == [py |-> "bytes", val |-> s]

\* A raised exception: its class, its message format and the format argument.
Raise(exc, msg, arg) == [py |-> "raise", exc |-> exc, msg |-> msg, arg |-> arg]

IsRaise(v) == v.py = "raise"

\* A completed call and the value it returned.
Return(v) == [py |-> "return", value |-> v]

Tuple(a, b) == [py |-> "tuple", items |-> <<a, b>>]

List(s) == [py |-> "list", items |-> s]

\* o.a : AttributeError when the object has no such attribute.
Attr(o, a) ==
  IF IsRaise(o) THEN o
  ELSE IF a \in DOMAIN o THEN o[a]
  ELSE Raise("AttributeError", "object has no attribute {}", a)

\* a + b on bytes: TypeError unless both operands are bytes.
Add(a, b) ==
  IF IsRaise(a) THEN a
  ELSE IF IsRaise(b) THEN b
  ELSE IF a.py = "bytes" /\ b.py = "bytes" THEN Bytes(a.val \o b.val)
  ELSE Raise("TypeError", "can't concat {} to bytes", b.py)

\* bytes.fromhex('04') and bytes.fromhex('00')
Hex04 == Bytes(<<4>>)
Hex00 == Bytes(<<0>>)

(***************************************************************************)
(* Enumerations of types.py                                                *)
(***************************************************************************)
\* Variant: a member of the Value table is named otherwise than its Name
\* table counterpart.
Member_value_named_by_code(cls, name) ==
  [py |-> cls,
   name |-> IF cls = "COSEAlgorithmIdentifier.Value" THEN "code" ELSE name]

\* A member of an Enum class: .name is the member identifier.
Member(cls, name) == [py |-> cls, name |-> name]

COSEAlgorithmIdentifierNames == {"ES256", "ES384", "ES512", "EDDSA"}

COSEAlgorithmIdentifier ==
  {Member(t, n) : t \in {"COSEAlgorithmIdentifier.Name",
                         "COSEAlgorithmIdentifier.Value"},
                  n \in COSEAlgorithmIdentifierNames}

EC2KeyTypeNames == {"P_256", "P_384", "P_521"}

OKPKeyTypeNames == {"ED25519", "ED448"}

AttestationType(name) == Member("AttestationType", name)

(***************************************************************************)
(* The cryptography library (ideal model)                                  *)
(***************************************************************************)
EllipticCurvePublicKey(curve, x, y) ==
  [py |-> "EllipticCurvePublicKey", curve |-> curve, x |-> x, y |-> y]

Ed25519PublicKey(x) == [py |-> "Ed25519PublicKey", x |-> x]

Ed448PublicKey(x) == [py |-> "Ed448PublicKey", x |-> x]

Certificate(pk) == [py |-> "Certificate", public_key |-> pk]

KeyP256a == EllipticCurvePublicKey("SECP256R1", <<1>>, <<2>>)
KeyP256b == EllipticCurvePublicKey("SECP256R1", <<2>>, <<1>>)
KeyP384  == EllipticCurvePublicKey("SECP384R1", <<1>>, <<2>>)
KeyEd    == Ed25519PublicKey(<<1>>)

\* The certificates that exist; certificate i is PEM-encoded as "-" i.
Certs == <<Certificate(KeyP256a), Certificate(KeyP384), Certificate(KeyEd)>>

PEM(i) == Bytes(<<45, i>>)

\* cryptography.x509.load_pem_x509_certificate(data, backend)
load_pem_x509_certificate(data) ==
  IF data.py # "bytes"
  THEN Raise("TypeError", "a bytes-like object is required, not {}", data.py)
  ELSE IF Len(data.val) = 2 /\ data.val[1] = 45 /\ data.val[2] \in 1..Len(Certs)
  THEN Certs[data.val[2]]
  ELSE Raise("ValueError", "Unable to load certificate", "")

\* The signature over data made with the private key of pk and the hash.
Signature(pk, data, hash) ==
  [py |-> "bytes", signer |-> pk, data |-> data, hash |-> hash]

\* public_key.verify(signature, data[, hash]): InvalidSignature unless the
\* signature was made by this key over this data with this hash.
verify(pk, signature, data, hash) ==
  IF /\ "signer" \in DOMAIN signature
     /\ signature.signer = pk
     /\ signature.data = data.val
     /\ signature.hash = hash
  THEN None
  ELSE Raise("InvalidSignature", "", "")

\* A hash algorithm of cryptography.hazmat.primitives.hashes.
Hash(name) == [py |-> "HashAlgorithm", name |-> name]

\* One call into the library or the converter, as recorded in the variable
\* calls; hash is the hash parameter of a verify call (None: no parameter).
LibCall(fn, hash) == [fn |-> fn, hash |-> hash]

(***************************************************************************)
(* Data model (types.py): constructors                                     *)
(***************************************************************************)
\* CredentialPublicKey.__init__, run on an instance of class cls.
CredentialPublicKey(cls, kty) ==
  [py |-> cls, kty |-> kty, kid |-> None, alg |-> None, key_ops |-> None,
   base_IV |-> None]

EC2CredentialPublicKey(x, y, crv) ==
  CredentialPublicKey("EC2CredentialPublicKey", Member("COSEKeyType.Name", "EC2"))
    @@ [x |-> x, y |-> y, crv |-> crv]

OKPCredentialPublicKey(crv, x) ==
  CredentialPublicKey("OKPCredentialPublicKey", Member("COSEKeyType.Name", "OKP"))
    @@ [crv |-> crv, x |-> x]

AttestedCredentialData(aaguid, credential_id, credential_public_key) ==
  [py |-> "AttestedCredentialData", aaguid |-> aaguid,
   credential_id_length |-> Len(credential_id.val),
   credential_id |-> credential_id,
   credential_public_key |-> credential_public_key, extensions |-> None]

AuthenticatorData(rp_id_hash, flags, sign_count, attested_credential_data) ==
  [py |-> "AuthenticatorData", rp_id_hash |-> rp_id_hash, flags |-> flags,
   sign_count |-> sign_count,
   attested_credential_data |-> attested_credential_data]

\* AttestationStatement.__init__, run on an instance of class cls.
AttestationStatement(cls, alg, sig) == [py |-> cls, alg |-> alg, sig |-> sig]

PackedAttestationStatement(cls, alg, sig) == AttestationStatement(cls, alg, sig)

PackedX509AttestationStatement(alg, sig, x5c) ==
  PackedAttestationStatement("PackedX509AttestationStatement", alg, sig)
    @@ [x5c |-> x5c]

PackedECDAAAttestationStatement(alg, sig, ecdaa_key_id) ==
  PackedAttestationStatement("PackedECDAAAttestationStatement", alg, sig)
    @@ [ecdaa_key_id |-> ecdaa_key_id]

TPMAttestationStatement(cls, alg, sig, ver, cert_info, pub_area) ==
  AttestationStatement(cls, alg, sig)
    @@ [ver |-> ver, cert_info |-> cert_info, pub_area |-> pub_area]

\* super().__init__(self, alg=..., ...) hands the keyword-only parent
\* initialiser a positional argument.
TPMX509AttestationStatement(alg, sig, ver, cert_info, pub_area, x5c) ==
  Raise("TypeError", "__init__() takes 1 positional argument but 2 were given", "")

TPMECDAAAttestationStatement(alg, sig, ver, cert_info, pub_area, ecdaa_key_id) ==
  Raise("TypeError", "__init__() takes 1 positional argument but 2 were given", "")

AndroidKeyAttestationStatement(alg, sig, x5c) ==
  AttestationStatement("AndroidKeyAttestationStatement", alg, sig)
    @@ [x5c |-> x5c]

AndroidSafetyNetAttestationStatement(alg, sig, ver, response) ==
  AttestationStatement("AndroidSafetyNetAttestationStatement", alg, sig)
    @@ [ver |-> ver, response |-> response]

FIDOU2FAttestationStatement(alg, sig, x5c) ==
  AttestationStatement("FIDOU2FAttestationStatement", alg, sig)
    @@ [x5c |-> x5c]

\* The class has no initialiser of its own: alg and sig default to None.
NoneAttestationStatement ==
  AttestationStatement("NoneAttestationStatement", None, None)

AttestationObject(auth_data, fmt, att_stmt) ==
  [py |-> "AttestationObject", auth_data |-> auth_data, fmt |-> fmt,
   att_stmt |-> att_stmt]

\* The base class of each attestation-statement class.
Base(cls) ==
  CASE cls \in {"PackedX509AttestationStatement",
                "PackedECDAAAttestationStatement"} -> "PackedAttestationStatement"
    [] cls \in {"TPMX509AttestationStatement",
                "TPMECDAAAttestationStatement"} -> "TPMAttestationStatement"
    [] cls \in {"PackedAttestationStatement", "TPMAttestationStatement",
                "AndroidKeyAttestationStatement",
                "AndroidSafetyNetAttestationStatement",
                "FIDOU2FAttestationStatement",
                "NoneAttestationStatement"} -> "AttestationStatement"
    [] OTHER -> "object"

(***************************************************************************)
(* Public-key converter (converters.py)                                    *)
(***************************************************************************)
cryptography_public_key(credential_public_key) ==
  IF IsRaise(credential_public_key) THEN credential_public_key
  ELSE IF credential_public_key.py = "EC2CredentialPublicKey"
  THEN LET crv == credential_public_key.crv.name
       IN IF crv \in EC2KeyTypeNames
          THEN EllipticCurvePublicKey(
                 CASE crv = "P_256" -> "SECP256R1"
                   [] crv = "P_384" -> "SECP384R1"
                   [] crv = "P_521" -> "SECP521R1",
                 credential_public_key.x.val, credential_public_key.y.val)
          ELSE Raise("ValidationError", "Unsupported curve {}", crv)
  ELSE IF credential_public_key.py = "OKPCredentialPublicKey"
  THEN LET crv == credential_public_key.crv.name
       IN IF crv = "ED25519" THEN Ed25519PublicKey(credential_public_key.x.val)
          ELSE IF crv = "ED448" THEN Ed448PublicKey(credential_public_key.x.val)
          ELSE Raise("ValidationError", "Unsupported curve {}", crv)
  ELSE Raise("ValidationError", "Unsupported key type {}", credential_public_key.py)

(***************************************************************************)
(* Attestation verifier dispatcher (attesters.py)                          *)
(***************************************************************************)
\* What a call of attest did: how it ended and the library calls it made.
Result(o, c) == [outcome |-> o, calls |-> c]

\* Variant: attest_none registered for the base class AttestationStatement.
Registry_none_on_base(cls) ==
  CASE cls = "FIDOU2FAttestationStatement" -> "attest_fido_u2f"
    [] cls = "AndroidKeyAttestationStatement" -> "attest_android_key"
    [] cls = "AttestationStatement" -> "attest_none"
    [] cls = "object" -> "attest"
    [] OTHER -> ""

\* The implementations registered with @attest.register; the function
\* decorated with @singledispatch is the one registered for object.
Registry(cls) ==
  CASE cls = "FIDOU2FAttestationStatement" -> "attest_fido_u2f"
    [] cls = "AndroidKeyAttestationStatement" -> "attest_android_key"
    [] cls = "NoneAttestationStatement" -> "attest_none"
    [] cls = "object" -> "attest"
    [] OTHER -> ""

\* functools.singledispatch: the implementation registered for the nearest
\* class in the method resolution order of type(att_stmt).
RECURSIVE dispatch(_)
dispatch(cls) ==
  IF Registry(cls) # "" THEN Registry(cls) ELSE dispatch(Base(cls))

attest(att_stmt, att_obj, auth_data, client_data_hash) ==
  Result(Raise("UnimplementedError", "{} verification unimplemented",
               att_stmt.py), <<>>)

\* Variant: only an empty list is refused.
fido_u2f_x5c_ok_nonempty(x5c) == Len(x5c) >= 1

\* len(att_stmt.x5c) != 1 is refused.
fido_u2f_x5c_ok(x5c) == Len(x5c) = 1

\* The certificate key must be an EllipticCurvePublicKey on SECP256R1.
IsEllipticCurvePublicKey(pk) == pk.py = "EllipticCurvePublicKey"

\* Variant: the curve is not looked at.
IsSECP256R1_any_curve(pk) == TRUE

IsSECP256R1(pk) == pk.curve = "SECP256R1"

\* public_key_u2f and verification_data as the function builds them.
fido_u2f_verification_data(att_obj, client_data_hash) ==
  LET credential_public_key ==
        Attr(Attr(Attr(att_obj, "auth_data"), "attested_credential_data"),
             "credential_public_key")
      public_key_u2f ==
        Add(Hex04, Add(Attr(credential_public_key, "x"),
                       Attr(credential_public_key, "y")))
      rp_id_hash == Attr(Attr(att_obj, "auth_data"), "rp_id_hash")
      credential_id == Attr(Attr(att_obj, "auth_data"), "attested_credential_data")
  IN IF IsRaise(public_key_u2f) THEN public_key_u2f
     ELSE Add(Add(Hex00, rp_id_hash),
              Add(Add(client_data_hash, credential_id), public_key_u2f))

attest_fido_u2f(att_stmt, att_obj, auth_data, client_data_hash) ==
  IF ~fido_u2f_x5c_ok(att_stmt.x5c)
  THEN Result(Raise("ValidationError",
         "FIDO U2F verification failed: must have a single X.509 certificate",
         ""), <<>>)
  ELSE
  LET att_cert == att_stmt.x5c[1]
      att_cert_x509 == load_pem_x509_certificate(att_cert)
      c1 == <<LibCall("load_pem_x509_certificate", None)>>
  IN
  IF IsRaise(att_cert_x509) THEN Result(att_cert_x509, c1)
  ELSE
  LET att_cert_x509_pk == att_cert_x509.public_key
      c2 == Append(c1, LibCall("public_key", None))
  IN
  IF ~IsEllipticCurvePublicKey(att_cert_x509_pk)
  THEN Result(Raise("ValidationError",
         "FIDO U2F verification failed: must use an Elliptic Curve Public Key",
         ""), c2)
  ELSE IF ~IsSECP256R1(att_cert_x509_pk)
  THEN Result(Raise("ValidationError",
         "FIDO U2F verification failed: must use an Elliptic Curve Public Key",
         ""), c2)
  ELSE
  LET verification_data ==
        fido_u2f_verification_data(att_obj, client_data_hash)
  IN
  IF IsRaise(verification_data) THEN Result(verification_data, c2)
  ELSE
  LET v == verify(att_cert_x509_pk, att_stmt.sig, verification_data, Hash("SHA256"))
      c3 == Append(c2, LibCall("verify", Hash("SHA256")))
  IN
  IF IsRaise(v)
  THEN Result(Raise("VerificationError",
         "FIDO U2F verification failed: invalid signature", ""), c3)
  ELSE Result(Return(Tuple(AttestationType("UNCERTAIN"),
                           List(<<att_cert_x509>>))), c3)

\* Variant: an unknown algorithm is taken for a hash-less one.
android_key_hash_algorithm_no_refusal(name) ==
  IF name = "ES256" THEN Hash("SHA256")
  ELSE IF name = "ES384" THEN Hash("SHA384")
  ELSE IF name = "ES512" THEN Hash("SHA512")
  ELSE None

\* Variant: EDDSA is verified with SHA-512.
android_key_hash_algorithm_eddsa_hashed(name) ==
  IF name = "ES256" THEN Hash("SHA256")
  ELSE IF name = "ES384" THEN Hash("SHA384")
  ELSE IF name = "ES512" THEN Hash("SHA512")
  ELSE IF name # "EDDSA"
  THEN Raise("ValidationError", "Unsupported hashing algorithm {}", name)
  ELSE Hash("SHA512")

\* Variant: ES384 selects SHA-256.
android_key_hash_algorithm_es384_sha256(name) ==
  IF name = "ES256" THEN Hash("SHA256")
  ELSE IF name = "ES384" THEN Hash("SHA256")
  ELSE IF name = "ES512" THEN Hash("SHA512")
  ELSE IF name # "EDDSA"
  THEN Raise("ValidationError", "Unsupported hashing algorithm {}", name)
  ELSE None

\* hash_algorithm as chosen from att_stmt.alg.name (None: no hash).
android_key_hash_algorithm(name) ==
  IF name = "ES256" THEN Hash("SHA256")
  ELSE IF name = "ES384" THEN Hash("SHA384")
  ELSE IF name = "ES512" THEN Hash("SHA512")
  ELSE IF name # "EDDSA"
  THEN Raise("ValidationError", "Unsupported hashing algorithm {}", name)
  ELSE None

\* Variant: only the kinds of the two keys are compared.
android_key_pk_mismatch_kind_only(cpk, cred_cert_pk) == cpk.py # cred_cert_pk.py

\* if cpk != cred_cert_pk: raise
android_key_pk_mismatch(cpk, cred_cert_pk) == cpk # cred_cert_pk

attest_android_key(att_stmt, att_obj, auth_data, client_data_hash) ==
  IF Len(att_stmt.x5c) = 0
  THEN Result(Raise("ValidationError",
         "Must have at least 1 X509 certificate", ""), <<>>)
  ELSE
  LET credential_certificate == att_stmt.x5c[1]
      cred_cert_pk == Attr(credential_certificate, "public_key")
  IN
  IF IsRaise(cred_cert_pk) THEN Result(cred_cert_pk, <<>>)
  ELSE
  LET c1 == <<LibCall("public_key", None)>>
      alg == Attr(att_stmt, "alg")
  IN
  IF "name" \notin DOMAIN alg THEN Result(Attr(alg, "name"), c1)
  ELSE
  LET hash_algorithm == android_key_hash_algorithm(alg.name)
  IN
  IF IsRaise(hash_algorithm) THEN Result(hash_algorithm, c1)
  ELSE
  LET verification_data == Add(auth_data, client_data_hash)
  IN
  IF IsRaise(verification_data) THEN Result(verification_data, c1)
  ELSE
  LET v == verify(cred_cert_pk, att_stmt.sig, verification_data, hash_algorithm)
      c2 == Append(c1, LibCall("verify", hash_algorithm))
  IN
  IF IsRaise(v)
  THEN Result(Raise("VerificationError",
         "Android Key verification failed: invalid signature", ""), c2)
  ELSE
  LET credential_public_key ==
        Attr(Attr(Attr(att_obj, "auth_data"), "attested_credential_data"),
             "credential_public_key")
  IN
  IF IsRaise(credential_public_key) THEN Result(credential_public_key, c2)
  ELSE
  LET cpk == cryptography_public_key(credential_public_key)
      c3 == Append(c2, LibCall("cryptography_public_key", None))
  IN
  IF IsRaise(cpk) THEN Result(cpk, c3)
  ELSE IF android_key_pk_mismatch(cpk, cred_cert_pk)
  THEN Result(Raise("ValidationError",
         "Certificate public key in attestation statement must match the provided credential public key",
         ""), c3)
  ELSE Result(Return(None), c3)

\* Variant: an empty trust path instead of an absent one.
attest_none_empty_path(att_stmt, att_obj, auth_data, client_data_hash) ==
  Result(Return(Tuple(AttestationType("NONE"), List(<<>>))), <<>>)

\* Variant: the trust path is kept between calls, empty once a call has ended.
attest_none_trust_path_kept(att_stmt, att_obj, auth_data, client_data_hash) ==
  IF history = <<>>
  THEN Result(Return(Tuple(AttestationType("NONE"), None)), <<>>)
  ELSE Result(Return(Tuple(AttestationType("NONE"), List(<<>>))), <<>>)

\* Variant: the format identifier of the attestation object is compared with
\* the statement's type.
attest_none_fmt_compared(att_stmt, att_obj, auth_data, client_data_hash) ==
  IF att_obj.fmt.name = "NONE"
  THEN Result(Return(Tuple(AttestationType("NONE"), None)), <<>>)
  ELSE Result(Raise("ValidationError", "Format mismatch", ""), <<>>)

attest_none(att_stmt, att_obj, auth_data, client_data_hash) ==
  Result(Return(Tuple(AttestationType("NONE"), None)), <<>>)

\* attest(...) as called: the implementation single dispatch selects for
\* type(att_stmt), applied to the four arguments.
attest_wrapper(att_stmt, att_obj, auth_data, client_data_hash) ==
  LET impl == dispatch(att_stmt.py)
  IN CASE impl = "attest_fido_u2f" ->
            attest_fido_u2f(att_stmt, att_obj, auth_data, client_data_hash)
       [] impl = "attest_android_key" ->
            attest_android_key(att_stmt, att_obj, auth_data, client_data_hash)
       [] impl = "attest_none" ->
            attest_none(att_stmt, att_obj, auth_data, client_data_hash)
       [] impl = "attest" ->
            attest(att_stmt, att_obj, auth_data, client_data_hash)

(***************************************************************************)
(* The calls that are made: arguments built with the constructors          *)
(***************************************************************************)
RpIdHashes == {Bytes(<<16>>)}

ClientDataHashes == {Bytes(<<32>>), Bytes(<<33>>)}

AuthDataBytes == {Bytes(<<48>>), Bytes(<<49>>)}

CredentialIds == {Bytes(<<64>>), Bytes(<<65>>)}

CredentialPublicKeys ==
  { None,
    CredentialPublicKey("CredentialPublicKey",
                        Member("COSEKeyType.Name", "SYMMETRIC")),
    EC2CredentialPublicKey(Bytes(<<1>>), Bytes(<<2>>),
                           Member("EC2KeyType.Name", "P_256")),
    EC2CredentialPublicKey(Bytes(<<2>>), Bytes(<<1>>),
                           Member("EC2KeyType.Value", "P_256")),
    OKPCredentialPublicKey(Member("OKPKeyType.Name", "ED25519"), Bytes(<<1>>)) }

AttestedCredentialDatas ==
  {None} \cup {AttestedCredentialData(Bytes(<<0>>), id, k) :
                 id \in CredentialIds, k \in CredentialPublicKeys}

AuthenticatorDatas ==
  {AuthenticatorData(h, 65, 0, acd) :
     h \in RpIdHashes, acd \in AttestedCredentialDatas}

Formats ==
  {Member("AttestationStatementFormatIdentifier", n) :
     n \in {"PACKED", "FIDO_U2F", "NONE"}}

\* Elements of x5c: PEM bytes of each certificate, bytes that are no
\* certificate, and already parsed certificates.
X5cHeads == {PEM(i) : i \in 1..Len(Certs)} \cup {Bytes(<<0>>)}
              \cup {Certs[1], Certs[3]}

X5cLists ==
  {<<>>} \cup {[i \in 1..n |-> IF i = 1 THEN c ELSE PEM(2)] :
                 c \in X5cHeads, n \in 1..MaxX5c}

\* The byte string a FIDO-U2F authenticator signs:
\* 0x00 || rpIdHash || clientDataHash || credentialId || 0x04 || x || y
U2FSignedData(auth, client_data_hash) ==
  LET acd == auth.attested_credential_data
      k == acd.credential_public_key
  IN <<0>> \o auth.rp_id_hash.val \o client_data_hash.val
       \o acd.credential_id.val \o <<4>> \o k.x.val \o k.y.val

HasEC2Key(auth) ==
  /\ auth.attested_credential_data # None
  /\ auth.attested_credential_data.credential_public_key.py
       = "EC2CredentialPublicKey"

\* Keys that sign authData || clientDataHash, and keys that sign the U2F
\* byte string.
AndroidSignerKeys == {KeyP256a, KeyEd}

U2FSignerKeys == {KeyP256a, KeyP384}

Hashes == {Hash("SHA256"), Hash("SHA384"), Hash("SHA512")}

\* Signatures a statement may carry: bytes that are no signature, signatures
\* over authData || clientDataHash, and signatures over the U2F byte string.
Signatures(auth, auth_data, client_data_hash) ==
  {Bytes(<<0>>)}
    \cup {Signature(k, auth_data.val \o client_data_hash.val, h) :
            k \in AndroidSignerKeys, h \in Hashes \cup {None}}
    \cup (IF HasEC2Key(auth)
          THEN {Signature(k, U2FSignedData(auth, client_data_hash),
                          Hash("SHA256")) : k \in U2FSignerKeys}
          ELSE {})

\* att_stmt.alg: the members of both tables, and a member of another enum.
Algs == COSEAlgorithmIdentifier \cup {Member("COSEKeyType.Name", "EC2")}

ES256 == Member("COSEAlgorithmIdentifier.Name", "ES256")

\* Every statement the constructors build (a constructor that raises builds
\* none).
Statements(auth, auth_data, client_data_hash) ==
  LET sigs == Signatures(auth, auth_data, client_data_hash)
      built ==
        {FIDOU2FAttestationStatement(ES256, s, l) : s \in sigs, l \in X5cLists}
        \cup {AndroidKeyAttestationStatement(a, s, l) :
                a \in Algs, s \in sigs, l \in X5cLists}
        \cup {NoneAttestationStatement}
        \cup {PackedAttestationStatement("PackedAttestationStatement", ES256,
                                         Bytes(<<0>>)),
              PackedX509AttestationStatement(ES256, Bytes(<<0>>), <<PEM(1)>>),
              PackedECDAAAttestationStatement(ES256, Bytes(<<0>>), Bytes(<<0>>)),
              TPMAttestationStatement("TPMAttestationStatement", ES256,
                                      Bytes(<<0>>), "2.0", Bytes(<<0>>),
                                      Bytes(<<0>>)),
              TPMX509AttestationStatement(ES256, Bytes(<<0>>), "2.0",
                                          Bytes(<<0>>), Bytes(<<0>>), <<PEM(1)>>),
              TPMECDAAAttestationStatement(ES256, Bytes(<<0>>), "2.0",
                                           Bytes(<<0>>), Bytes(<<0>>),
                                           Bytes(<<0>>)),
              AndroidSafetyNetAttestationStatement(ES256, Bytes(<<0>>), "1",
                                                   Bytes(<<0>>))}
  IN {s \in built : ~IsRaise(s)}

\* The statement an attestation object carries: the one passed to attest, or
\* another one.
CarriedStatements(stmt) ==
  {stmt, PackedAttestationStatement("PackedAttestationStatement", ES256,
                                    Bytes(<<0>>))}

\* An instance of the base registrar: the class defines no attribute and no
\* initialiser.
CredentialsRegistrar == [py |-> "CredentialsRegistrar"]

Pending == [py |-> "pending"]

\* No operation on the data model or the registrar has been made.
NoOp == [name |-> "none"]

Init ==
  /\ arg_client_data_hash \in ClientDataHashes
  /\ arg_auth_data \in AuthDataBytes
  /\ \E auth \in AuthenticatorDatas, fmt \in Formats :
       \E stmt \in Statements(auth, arg_auth_data, arg_client_data_hash) :
         /\ arg_att_stmt = stmt
         /\ \E carried \in CarriedStatements(stmt) :
              arg_att_obj = AttestationObject(auth, fmt, carried)
  /\ outcome = Pending
  /\ calls = <<>>
  /\ pc = "ready"
  /\ op = NoOp
  /\ ret = Pending
  /\ history = <<>>
  /\ registrar = CredentialsRegistrar

\* attest(att_stmt, att_obj, auth_data, client_data_hash), by the
\* implementation single dispatch selects.
Finish(r) ==
  /\ outcome' = r.outcome
  /\ calls' = r.calls
  /\ pc' = "done"
  /\ UNCHANGED <<arg_att_stmt, arg_att_obj, arg_auth_data, arg_client_data_hash,
                 op, ret, history, registrar>>

AttestDefault ==
  /\ pc = "ready"
  /\ dispatch(arg_att_stmt.py) = "attest"
  /\ Finish(attest(arg_att_stmt, arg_att_obj, arg_auth_data,
                   arg_client_data_hash))

AttestFidoU2F ==
  /\ pc = "ready"
  /\ dispatch(arg_att_stmt.py) = "attest_fido_u2f"
  /\ Finish(attest_fido_u2f(arg_att_stmt, arg_att_obj, arg_auth_data,
                            arg_client_data_hash))

AttestAndroidKey ==
  /\ pc = "ready"
  /\ dispatch(arg_att_stmt.py) = "attest_android_key"
  /\ Finish(attest_android_key(arg_att_stmt, arg_att_obj, arg_auth_data,
                               arg_client_data_hash))

AttestNone ==
  /\ pc = "ready"
  /\ dispatch(arg_att_stmt.py) = "attest_none"
  /\ Finish(attest_none(arg_att_stmt, arg_att_obj, arg_auth_data,
                        arg_client_data_hash))

Next == AttestDefault \/ AttestFidoU2F \/ AttestAndroidKey \/ AttestNone

Spec == Init /\ [][Next]_vars

(***************************************************************************)
(* Sequences of calls of attest by one caller                              *)
(***************************************************************************)
\* The arguments of the calls of a sequence: two authenticator datas, both
\* client data hashes, and one statement of each implementation, the
\* Android-Key one signed over the first client data hash.
CallArguments ==
  LET auth_data == Bytes(<<48>>)
      signed == Signature(KeyP256a, auth_data.val \o <<32>>, Hash("SHA256"))
  IN {[att_stmt |-> stmt,
       att_obj |-> AttestationObject(auth,
                     Member("AttestationStatementFormatIdentifier", "NONE"),
                     stmt),
       auth_data |-> auth_data,
       client_data_hash |-> cdh] :
        auth \in {AuthenticatorData(Bytes(<<16>>), 65, 0, acd) :
                    acd \in {None,
                             AttestedCredentialData(Bytes(<<0>>), Bytes(<<64>>),
                               EC2CredentialPublicKey(Bytes(<<1>>), Bytes(<<2>>),
                                 Member("EC2KeyType.Name", "P_256")))}},
        cdh \in ClientDataHashes,
        stmt \in {NoneAttestationStatement,
                  PackedAttestationStatement("PackedAttestationStatement",
                                             ES256, Bytes(<<0>>)),
                  FIDOU2FAttestationStatement(ES256, Bytes(<<0>>), <<PEM(1)>>),
                  AndroidKeyAttestationStatement(ES256, signed, <<Certs[1]>>)}}

\* The caller passes the arguments a to attest.
Pass(a) ==
  /\ arg_att_stmt' = a.att_stmt
  /\ arg_att_obj' = a.att_obj
  /\ arg_auth_data' = a.auth_data
  /\ arg_client_data_hash' = a.client_data_hash

\* The current call: its arguments as they are now, and how it ended.
CurrentCall ==
  [att_stmt |-> arg_att_stmt, att_obj |-> arg_att_obj,
   auth_data |-> arg_auth_data, client_data_hash |-> arg_client_data_hash,
   outcome |-> outcome, calls |-> calls]

InitCalls ==
  /\ \E a \in CallArguments :
       /\ arg_att_stmt = a.att_stmt
       /\ arg_att_obj = a.att_obj
       /\ arg_auth_data = a.auth_data
       /\ arg_client_data_hash = a.client_data_hash
  /\ outcome = Pending
  /\ calls = <<>>
  /\ pc = "ready"
  /\ op = NoOp
  /\ ret = Pending
  /\ history = <<>>
  /\ registrar = CredentialsRegistrar

\* The caller, a call of attest having ended, makes the next one.
NextCall ==
  /\ pc = "done"
  /\ Len(history) < MaxCalls
  /\ history' = Append(history, CurrentCall)
  /\ \E a \in CallArguments : Pass(a)
  /\ outcome' = Pending
  /\ calls' = <<>>
  /\ pc' = "ready"
  /\ UNCHANGED <<op, ret, registrar>>

NextCalls ==
  \/ AttestDefault
  \/ AttestFidoU2F
  \/ AttestAndroidKey
  \/ AttestNone
  \/ NextCall

SpecCalls == InitCalls /\ [][NextCalls]_vars

(***************************************************************************)
(* Properties                                                              *)
(***************************************************************************)
IsDone == pc = "done"

Auth == arg_att_obj.auth_data

IsFidoU2F == arg_att_stmt.py = "FIDOU2FAttestationStatement"

IsAndroidKey == arg_att_stmt.py = "AndroidKeyAttestationStatement"

ErrorKinds ==
  {"UnimplementedError", "ValidationError", "AttestationError",
   "VerificationError"}

Raised(exc) == outcome.py = "raise" /\ outcome.exc = exc

MadeCall(fn) == \E i \in 1..Len(calls) : calls[i].fn = fn

\* A FIDO-U2F call whose x5c is one PEM certificate with a P-256 key and whose
\* attested credential data carries an EC2 key and a credential id.
U2FCorrectButSig ==
  /\ IsFidoU2F
  /\ Len(arg_att_stmt.x5c) = 1
  /\ arg_att_stmt.x5c[1] \in {PEM(i) : i \in 1..Len(Certs)}
  /\ LET pk == load_pem_x509_certificate(arg_att_stmt.x5c[1]).public_key
     IN pk.py = "EllipticCurvePublicKey" /\ pk.curve = "SECP256R1"
  /\ HasEC2Key(Auth)

\* The valid signature of such a call.
U2FValidSig ==
  Signature(load_pem_x509_certificate(arg_att_stmt.x5c[1]).public_key,
            U2FSignedData(Auth, arg_client_data_hash), Hash("SHA256"))

\* C1: a FIDO-U2F call with one P-256 certificate, an EC2 credential key and a
\* signature valid over 0x00 || rp_id_hash || client_data_hash ||
\* credential_id || 0x04 || x || y returns (UNCERTAIN, [parsed certificate]).
C1_U2FHappyPath ==
  (IsDone /\ U2FCorrectButSig /\ arg_att_stmt.sig = U2FValidSig)
    => outcome = Return(Tuple(AttestationType("UNCERTAIN"),
             List(<<load_pem_x509_certificate(arg_att_stmt.x5c[1])>>)))

\* C2: every call of attest that returns, returns a pair
\* (AttestationType, TrustedPath), never an absent value.
C2_ReturnsPair ==
  (IsDone /\ outcome.py = "return")
    => /\ outcome.value.py = "tuple"
       /\ Len(outcome.value.items) = 2
       /\ outcome.value.items[1].py = "AttestationType"
       /\ outcome.value.items[2].py \in {"list", "NoneType"}

\* The hash each algorithm stands for (None: no hash parameter).
HashOf(name) ==
  CASE name = "ES256" -> Hash("SHA256")
    [] name = "ES384" -> Hash("SHA384")
    [] name = "ES512" -> Hash("SHA512")
    [] name = "EDDSA" -> None

\* An Android-Key call whose first x5c entry is a certificate exposing its
\* public key.
AndroidKeyWithCert ==
  /\ IsAndroidKey
  /\ Len(arg_att_stmt.x5c) >= 1
  /\ "public_key" \in DOMAIN arg_att_stmt.x5c[1]

\* ... with a supported algorithm and a signature valid over
\* auth_data || client_data_hash under that certificate's key.
AndroidKeyValidSig ==
  /\ AndroidKeyWithCert
  /\ arg_att_stmt.alg.name \in COSEAlgorithmIdentifierNames
  /\ arg_att_stmt.sig =
       Signature(arg_att_stmt.x5c[1].public_key,
                 arg_auth_data.val \o arg_client_data_hash.val,
                 HashOf(arg_att_stmt.alg.name))

\* The embedded credential public key, converted, equals the certificate key.
EmbeddedKeyMatches ==
  /\ Auth.attested_credential_data # None
  /\ LET k == cryptography_public_key(
                Auth.attested_credential_data.credential_public_key)
     IN k = arg_att_stmt.x5c[1].public_key

C4_U2FTamperedSignature ==
  (IsDone /\ U2FCorrectButSig /\ arg_att_stmt.sig # U2FValidSig)
    => Raised("VerificationError")

\* C5: a FIDO-U2F call whose x5c does not hold exactly one certificate fails
\* with ValidationError before any certificate is parsed and before any
\* signature verification.
C5_U2FCertificateCount ==
  (IsDone /\ IsFidoU2F /\ Len(arg_att_stmt.x5c) # 1)
    => Raised("ValidationError") /\ calls = <<>>

\* C5 happens: two certificates and a signature over the U2F byte string.
C5_Witness ==
  /\ IsDone /\ IsFidoU2F
  /\ Len(arg_att_stmt.x5c) = 2
  /\ "signer" \in DOMAIN arg_att_stmt.sig
  /\ Raised("ValidationError")

\* C6: a FIDO-U2F call whose single certificate carries a key that is not an
\* elliptic-curve key, or one on another curve than P-256, fails with
\* ValidationError before the credential key is read or a signature verified,
\* whatever the signature and the attested credential data are.
C6_U2FWrongKey ==
  (IsDone /\ IsFidoU2F /\ Len(arg_att_stmt.x5c) = 1
     /\ arg_att_stmt.x5c[1] \in {PEM(i) : i \in 1..Len(Certs)}
     /\ LET pk == load_pem_x509_certificate(arg_att_stmt.x5c[1]).public_key
        IN pk.py # "EllipticCurvePublicKey" \/ pk.curve # "SECP256R1")
    => Raised("ValidationError") /\ ~MadeCall("verify")

\* C6 happens: a P-384 certificate whose key made the signature over the U2F
\* byte string.
C6_Witness ==
  /\ IsDone /\ IsFidoU2F
  /\ arg_att_stmt.x5c = <<PEM(2)>>
  /\ HasEC2Key(Auth)
  /\ arg_att_stmt.sig = Signature(KeyP384,
                          U2FSignedData(Auth, arg_client_data_hash),
                          Hash("SHA256"))
  /\ Raised("ValidationError")

C8_NoneAttestation ==
  (IsDone /\ arg_att_stmt.py = "NoneAttestationStatement")
    => outcome = Return(Tuple(AttestationType("NONE"), None)) /\ calls = <<>>

\* C8 happens: a none statement next to authenticator data with no attested
\* credential data.
C8_Witness ==
  /\ IsDone
  /\ arg_att_stmt.py = "NoneAttestationStatement"
  /\ Auth.attested_credential_data = None
  /\ outcome.py = "return"

UnimplementedFormats ==
  {"PackedAttestationStatement", "PackedX509AttestationStatement",
   "PackedECDAAAttestationStatement", "TPMAttestationStatement",
   "TPMX509AttestationStatement", "TPMECDAAAttestationStatement",
   "AndroidSafetyNetAttestationStatement"}

\* C9: attest on a packed, TPM or android-safetynet statement (and their
\* variants) fails with UnimplementedError naming the statement's type.
C9_UnimplementedFormats ==
  (IsDone /\ arg_att_stmt.py \in UnimplementedFormats)
    => outcome = Raise("UnimplementedError", "{} verification unimplemented",
                       arg_att_stmt.py)

\* C9 happens: a subclass of an unregistered class reaches the default.
C9_Witness ==
  /\ IsDone
  /\ arg_att_stmt.py = "PackedX509AttestationStatement"
  /\ Raised("UnimplementedError")

\* C10: every failure of attest is an UnimplementedError, a ValidationError,
\* an AttestationError or a VerificationError.
C10_FourErrorKinds ==
  (IsDone /\ outcome.py = "raise") => outcome.exc \in ErrorKinds

\* C21: on a FIDO-U2F call that passes the certificate checks, the byte
\* string built for verification is 0x00, rp_id_hash, client_data_hash, the
\* credential id bytes, then 0x04, x and y, and it is handed to verify.
C21_U2FPayload ==
  (IsDone /\ U2FCorrectButSig) =>
    /\ fido_u2f_verification_data(arg_att_obj, arg_client_data_hash)
         = Bytes(U2FSignedData(Auth, arg_client_data_hash))
    /\ MadeCall("verify")

\* The signature of an Android-Key call is the one made by the first
\* certificate's key over auth_data || client_data_hash with the hash the
\* algorithm stands for.
AndroidKeySigValid ==
  arg_att_stmt.sig =
    Signature(arg_att_stmt.x5c[1].public_key,
              arg_auth_data.val \o arg_client_data_hash.val,
              HashOf(arg_att_stmt.alg.name))

C23_AndroidKeySignatureFailure ==
  /\ (IsDone /\ AndroidKeyWithCert
        /\ arg_att_stmt.alg.name \in COSEAlgorithmIdentifierNames
        /\ IsRaise(verify(arg_att_stmt.x5c[1].public_key, arg_att_stmt.sig,
                          Bytes(arg_auth_data.val \o arg_client_data_hash.val),
                          HashOf(arg_att_stmt.alg.name))))
       => /\ outcome = Raise("VerificationError",
                 "Android Key verification failed: invalid signature", "")
          /\ calls = <<LibCall("public_key", None),
                       LibCall("verify", HashOf(arg_att_stmt.alg.name))>>
  /\ IsDone => ~Raised("InvalidSignature")

\* C23 happens on the hash-less path: EDDSA with a signature the Ed25519
\* certificate key made with a hash.
C23_Witness ==
  /\ IsDone /\ AndroidKeyWithCert
  /\ arg_att_stmt.alg.name = "EDDSA"
  /\ arg_att_stmt.x5c[1].public_key = KeyEd
  /\ arg_att_stmt.sig = Signature(KeyEd,
                          arg_auth_data.val \o arg_client_data_hash.val,
                          Hash("SHA256"))
  /\ calls[2] = LibCall("verify", None)
  /\ Raised("VerificationError")

AttestationStatementFormatIdentifier ==
  {Member("AttestationStatementFormatIdentifier", n) :
     n \in {"PACKED", "TPM", "ANDROID_KEY", "ANDROID_SAFETYNET", "FIDO_U2F",
            "NONE"}}

\* C26: the outcome of a call and the library calls it makes are the same
\* whatever format identifier and whatever statement the attestation object
\* carries; a none statement passed with an attestation object of another
\* format still yields (NONE, absent trust path).
C26_DispatchByTypeOnly ==
  IsDone =>
    /\ \A fmt \in AttestationStatementFormatIdentifier :
         \A carried \in CarriedStatements(arg_att_stmt) \cup {None} :
           attest_wrapper(arg_att_stmt,
                          [arg_att_obj EXCEPT !.fmt = fmt, !.att_stmt = carried],
                          arg_auth_data, arg_client_data_hash)
             = Result(outcome, calls)
    /\ (arg_att_stmt.py = "NoneAttestationStatement"
          /\ arg_att_obj.fmt.name # "NONE")
         => outcome = Return(Tuple(AttestationType("NONE"), None))

\* C26 happens: a none statement passed with an attestation object that says
\* packed and carries a packed statement.
C26_Witness ==
  /\ IsDone
  /\ arg_att_stmt.py = "NoneAttestationStatement"
  /\ arg_att_obj.fmt.name = "PACKED"
  /\ arg_att_obj.att_stmt.py = "PackedAttestationStatement"
  /\ outcome = Return(Tuple(AttestationType("NONE"), None))

\* The member of the other table with the same identifier.
OtherTable(alg) ==
  Member(IF alg.py = "COSEAlgorithmIdentifier.Name"
         THEN "COSEAlgorithmIdentifier.Value"
         ELSE "COSEAlgorithmIdentifier.Name", alg.name)

\* C27: an Android-Key call whose alg is a COSEAlgorithmIdentifier member
\* verifies with the hash of the member's identifier, and the same call with
\* the member of the other table in its place ends the same way after the
\* same library calls.
C27_HashSelectionByIdentifier ==
  (IsDone /\ AndroidKeyWithCert /\ arg_att_stmt.alg \in COSEAlgorithmIdentifier)
    => /\ arg_att_stmt.alg.name \in COSEAlgorithmIdentifierNames
       /\ MadeCall("verify")
       /\ calls[2].hash = HashOf(arg_att_stmt.alg.name)
       /\ attest_wrapper([arg_att_stmt EXCEPT !.alg = OtherTable(@)],
                         arg_att_obj, arg_auth_data, arg_client_data_hash)
            = Result(outcome, calls)

\* C27 happens: the Value-table member EDDSA takes the hash-less path and the
\* call returns.
C27_Witness ==
  /\ IsDone /\ AndroidKeyWithCert
  /\ arg_att_stmt.alg = Member("COSEAlgorithmIdentifier.Value", "EDDSA")
  /\ calls[2] = LibCall("verify", None)
  /\ outcome.py = "return"

\* The arguments of a recorded call.
ArgumentsOf(c) == <<c.att_stmt, c.att_obj, c.auth_data, c.client_data_hash>>

\* The calls that have ended: the earlier ones and, once done, the current.
EndedCalls ==
  {history[i] : i \in DOMAIN history}
    \cup (IF pc = "done" THEN {CurrentCall} ELSE {})

register_creation_options(self, options) ==
  Raise("UnimplementedError", "Must implement {}", "register_creation_options")

register_request_options(self, options) ==
  Raise("UnimplementedError", "Must implement {}", "register_request_options")

register_credential_creation(self, credential, att, att_type, user, rp, trusted_path) ==
  Raise("UnimplementedError", "Must implement {}",
        "register_credential_creation")

register_credential_request(self, credential, authenticator_data, user, rp) ==
  Raise("UnimplementedError", "Must implement {}",
        "register_credential_request")

\* Variant: the lookup answers once a credential creation has been attempted.
get_credential_data_after_creation(self, credential_id) ==
  IF \E i \in DOMAIN history : history[i].name = "register_credential_creation"
  THEN None
  ELSE Raise("UnimplementedError", "Must implement {}", "get_credential_data")

get_credential_data(self, credential_id) ==
  Raise("UnimplementedError", "Must implement {}", "get_credential_data")

check_user_owns_credential_as_creation(self, user_handle, credential_id) ==
  Raise("UnimplementedError", "Must implement {}", "register_creation_options")

check_user_owns_credential(self, user_handle, credential_id) ==
  Raise("UnimplementedError", "Must implement {}", "check_user_owns_credential")

\* The six operations of the contract.
RegistrarOperations ==
  {"register_creation_options", "register_request_options",
   "register_credential_creation", "register_credential_request",
   "get_credential_data", "check_user_owns_credential"}

(***************************************************************************)
(* Enumerations with a name and a value representation (types.py)          *)
(***************************************************************************)
PyStr(s) == [py |-> "str", val |-> s]

PyInt(n) == [py |-> "int", val |-> n]

\* A float, by its literal.
PyFloat(lit) == [py |-> "float", val |-> lit]

PyBool(b) == [py |-> "bool", val |-> b]

\* Variant: the codes of ES384 and ES512 exchanged.
EnumMembers_codes_exchanged ==
  [COSEAlgorithmIdentifier |->
     [Name  |-> [ES256 |-> "ES256", ES384 |-> "ES384", ES512 |-> "ES512",
                 EDDSA |-> "EdDSA"],
      Value |-> [ES256 |-> -7, ES384 |-> -36, ES512 |-> -35, EDDSA |-> -8]],
   COSEKeyType |->
     [Name  |-> [OKP |-> "OKP", EC2 |-> "EC2", SYMMETRIC |-> "Symmetric"],
      Value |-> [OKP |-> 1, EC2 |-> 2, SYMMETRIC |-> 4]],
   COSEKeyOperation |->
     [Name  |-> [SIGN |-> "sign", VERIFY |-> "verify", ENCRYPT |-> "encrypt",
                 DECRYPT |-> "decrypt", WRAP_KEY |-> "wrap key",
                 UNWRAP_KEY |-> "unwrap key", DERIVE_KEY |-> "derive key",
                 DERIVE_BITS |-> "derive bits", MAC_CREATE |-> "MAC create",
                 MAC_VERIFY |-> "MAC verify"],
      Value |-> [SIGN |-> 1, VERIFY |-> 2, ENCRYPT |-> 3, DECRYPT |-> 4,
                 WRAP_KEY |-> 5, UNWRAP_KEY |-> 6, DERIVE_KEY |-> 7,
                 DERIVE_BITS |-> 8, MAC_CREATE |-> 9, MAC_VERIFY |-> 10]],
   EC2KeyType |->
     [Name  |-> [P_256 |-> "P-256", P_384 |-> "P-384", P_521 |-> "P-521"],
      Value |-> [P_256 |-> 1, P_384 |-> 2, P_521 |-> 3]],
   OKPKeyType |->
     [Name  |-> [ED25519 |-> "Ed25519", ED448 |-> "Ed448"],
      Value |-> [ED25519 |-> 6, ED448 |-> 7]]]

\* The member tables of the nested Enum classes: member identifier |-> value.
\* (The docstrings of COSEKeyType and OKPKeyType are misplaced in types.py,
\* lines 1133 and 1241; the classes are read as the other three are laid out.)
EnumMembers ==
  [COSEAlgorithmIdentifier |->
     [Name  |-> [ES256 |-> "ES256", ES384 |-> "ES384", ES512 |-> "ES512",
                 EDDSA |-> "EdDSA"],
      Value |-> [ES256 |-> -7, ES384 |-> -35, ES512 |-> -36, EDDSA |-> -8]],
   COSEKeyType |->
     [Name  |-> [OKP |-> "OKP", EC2 |-> "EC2", SYMMETRIC |-> "Symmetric"],
      Value |-> [OKP |-> 1, EC2 |-> 2, SYMMETRIC |-> 4]],
   COSEKeyOperation |->
     [Name  |-> [SIGN |-> "sign", VERIFY |-> "verify", ENCRYPT |-> "encrypt",
                 DECRYPT |-> "decrypt", WRAP_KEY |-> "wrap key",
                 UNWRAP_KEY |-> "unwrap key", DERIVE_KEY |-> "derive key",
                 DERIVE_BITS |-> "derive bits", MAC_CREATE |-> "MAC create",
                 MAC_VERIFY |-> "MAC verify"],
      Value |-> [SIGN |-> 1, VERIFY |-> 2, ENCRYPT |-> 3, DECRYPT |-> 4,
                 WRAP_KEY |-> 5, UNWRAP_KEY |-> 6, DERIVE_KEY |-> 7,
                 DERIVE_BITS |-> 8, MAC_CREATE |-> 9, MAC_VERIFY |-> 10]],
   EC2KeyType |->
     [Name  |-> [P_256 |-> "P-256", P_384 |-> "P-384", P_521 |-> "P-521"],
      Value |-> [P_256 |-> 1, P_384 |-> 2, P_521 |-> 3]],
   OKPKeyType |->
     [Name  |-> [ED25519 |-> "Ed25519", ED448 |-> "Ed448"],
      Value |-> [ED25519 |-> 6, ED448 |-> 7]]]

\* enum.Enum: cls(value) looks a member up by its value, ValueError if none.
EnumByValue(container, kind, value) ==
  LET members == EnumMembers[container][kind]
      found == {n \in DOMAIN members : members[n] = value.val}
  IN IF found # {}
     THEN Member(container \o "." \o kind, CHOOSE n \in found : TRUE)
     ELSE Raise("ValueError", "{} is not a valid " \o kind, value)

\* enum.Enum: cls[name] looks a member up by its identifier, KeyError if none.
EnumByName(container, kind, name) ==
  LET members == EnumMembers[container][kind]
  IN IF name.py = "str" /\ name.val \in DOMAIN members
     THEN Member(container \o "." \o kind, name.val)
     ELSE Raise("KeyError", "{}", name)

NameValueEnumsContainer_call(cls, value) ==
  IF value.py = "int" THEN EnumByValue(cls, "Value", value)
  ELSE IF value.py = "str" THEN EnumByValue(cls, "Name", value)
  ELSE Raise("KeyError", "Invalid key {}", value)

NameValueEnumsContainer_getitem(cls, value) ==
  IF value.py = "int" THEN EnumByName(cls, "Value", value)
  ELSE IF value.py = "str" THEN EnumByName(cls, "Name", value)
  ELSE Raise("KeyError", "Invalid key {}", value)

(***************************************************************************)
(* Extension identifiers (types.py) and the case conversion (utils)        *)
(***************************************************************************)
\* A str by its characters, where the code looks into the string.
Chars(s) == [py |-> "str", chars |-> s]

\* str.lower() of one character.
LowerCase ==
  [A |-> "a", B |-> "b", C |-> "c", D |-> "d", E |-> "e", F |-> "f", G |->
    "g", H |-> "h", I |-> "i", J |-> "j", K |-> "k", L |-> "l", M |-> "m", N
    |-> "n", O |-> "o", P |-> "p", Q |-> "q", R |-> "r", S |-> "s", T |->
    "t", U |-> "u", V |-> "v", W |-> "w", X |-> "x", Y |-> "y", Z |-> "z"]

IsUpper(c) == c \in DOMAIN LowerCase

Lower(c) == IF IsUpper(c) THEN LowerCase[c] ELSE c

\* utils.camel_to_snake_case: an underscore before each internal uppercase
\* letter, then the whole string lowercased.
RECURSIVE WithUnderscores(_, _)
WithUnderscores(s, i) ==
  IF i > Len(s) THEN <<>>
  ELSE (IF i > 1 /\ IsUpper(s[i]) THEN <<"_", s[i]>> ELSE <<s[i]>>)
         \o WithUnderscores(s, i + 1)

camel_to_snake_case(name) ==
  LET s == WithUnderscores(name.chars, 1)
  IN Chars([i \in 1..Len(s) |-> Lower(s[i])])

\* The members of ExtensionIdentifier: identifier |-> value.
ExtensionIdentifier ==
  [APPID |-> <<"a", "p", "p", "i", "d">>,
   TX_AUTH_SIMPLE |-> <<"t", "x", "A", "u", "t", "h", "S", "i", "m", "p",
    "l", "e">>,
   TX_AUTH_GENERIC |-> <<"t", "x", "A", "u", "t", "h", "G", "e", "n", "e",
    "r", "i", "c">>,
   AUTHN_SEL |-> <<"a", "u", "t", "h", "n", "S", "e", "l">>,
   EXTS |-> <<"e", "x", "t", "s">>,
   UVI |-> <<"u", "v", "i">>,
   LOC |-> <<"l", "o", "c">>,
   UVM |-> <<"u", "v", "m">>,
   BIOMETRIC_PERF_BOUNDS |-> <<"b", "i", "o", "m", "e", "t", "r", "i", "c",
    "P", "e", "r", "f", "B", "o", "u", "n", "d", "s">>]

\* Member.value of an ExtensionIdentifier member.
ExtensionIdentifier_value(self) == Chars(ExtensionIdentifier[self.name])

ExtensionIdentifier_key_unconverted(self) == ExtensionIdentifier_value(self)

ExtensionIdentifier_key(self) ==
  camel_to_snake_case(ExtensionIdentifier_value(self))

(***************************************************************************)
(* Authenticator data flags (types.py)                                     *)
(***************************************************************************)
\* a << n, a | b and a & b on non-negative integers.
ShiftLeft(a, n) == a * 2^n

RECURSIVE BitOr(_, _)
BitOr(a, b) ==
  IF a = 0 THEN b
  ELSE IF b = 0 THEN a
  ELSE 2 * BitOr(a \div 2, b \div 2) + (IF a % 2 = 1 \/ b % 2 = 1 THEN 1 ELSE 0)

RECURSIVE BitAnd(_, _)
BitAnd(a, b) ==
  IF a = 0 \/ b = 0 THEN 0
  ELSE 2 * BitAnd(a \div 2, b \div 2) + (IF a % 2 = 1 /\ b % 2 = 1 THEN 1 ELSE 0)

UP == ShiftLeft(1, 0)

RFU1 == ShiftLeft(1, 1)

UV == ShiftLeft(1, 2)

RFU2_without_bit_5 == BitOr(ShiftLeft(1, 3), ShiftLeft(1, 4))

RFU2 == BitOr(BitOr(ShiftLeft(1, 3), ShiftLeft(1, 4)), ShiftLeft(1, 5))

AT == ShiftLeft(1, 6)

ED == ShiftLeft(1, 7)

\* The members of AuthenticatorDataFlag: identifier |-> value.
AuthenticatorDataFlag ==
  [UP |-> UP, RFU1 |-> RFU1, UV |-> UV, RFU2 |-> RFU2, AT |-> AT, ED |-> ED]

\* The members set in a flags byte: those with flags & member.value non-zero.
FlagsSet(flags) ==
  {Member("AuthenticatorDataFlag", n) :
     n \in {m \in DOMAIN AuthenticatorDataFlag :
              BitAnd(flags, AuthenticatorDataFlag[m]) # 0}}

(***************************************************************************)
(* Initialisers with keyword-only parameters (types.py)                    *)
(***************************************************************************)
\* A record with no field.
NoFields == [f \in {} |-> None]

\* Binding of the keyword arguments kw to keyword-only parameters, some
\* required, the others with defaults: TypeError on a missing or an unknown
\* keyword, else the value of every parameter.
Bind(required, defaults, kw) ==
  IF DOMAIN kw \ (required \cup DOMAIN defaults) # {}
  THEN Raise("TypeError", "__init__() got an unexpected keyword argument {}",
             DOMAIN kw \ (required \cup DOMAIN defaults))
  ELSE IF required \ DOMAIN kw # {}
  THEN Raise("TypeError", "__init__() missing required keyword-only argument {}",
             required \ DOMAIN kw)
  ELSE [py |-> "arguments"] @@ kw @@ defaults

PublicKeyCredentialEntity(cls, name, icon) ==
  [py |-> cls, name |-> name, icon |-> icon]

PublicKeyCredentialRpEntity(kw) ==
  LET a == Bind({"name", "id"}, [icon |-> None], kw)
  IN IF IsRaise(a) THEN a
     ELSE PublicKeyCredentialEntity("PublicKeyCredentialRpEntity", a.name, a.icon)
            @@ [id |-> a.id]

AuthenticatorSelectionCriteria(kw) ==
  LET a == Bind({}, [authenticator_attachment |-> None,
                     require_resident_key |-> PyBool(FALSE),
                     user_verification |->
                       Member("UserVerificationRequirement", "PREFERRED")], kw)
  IN IF IsRaise(a) THEN a
     ELSE [py |-> "AuthenticatorSelectionCriteria",
           authenticator_attachment |-> a.authenticator_attachment,
           require_resident_key |-> a.require_resident_key,
           user_verification |-> a.user_verification]

PublicKeyCredentialCreationOptions(kw) ==
  LET a == Bind({"rp", "user", "challenge", "pub_key_cred_params"},
                [timeout |-> None, authenticator_selection |-> None,
                 extensions |-> None,
                 attestation |->
                   Member("AttestationConveyancePreference", "NONE"),
                 exclude_credentials |-> None], kw)
  IN IF IsRaise(a) THEN a
     ELSE [py |-> "PublicKeyCredentialCreationOptions",
           rp |-> a.rp,
           user |-> a.user,
           challenge |-> a.challenge,
           pub_key_cred_params |-> a.pub_key_cred_params,
           timeout |-> a.timeout,
           exclude_credentials |-> a.exclude_credentials,
           authenticator_selection |-> a.authenticator_selection,
           attestation |-> a.attestation,
           extensions |-> a.extensions]

PublicKeyCredentialRequestOptions_no_default(kw) ==
  LET a == Bind({"challenge"},
                [timeout |-> None, rp_id |-> None, extensions |-> None,
                 allow_credentials |-> None, user_verification |-> None], kw)
  IN IF IsRaise(a) THEN a
     ELSE [py |-> "PublicKeyCredentialRequestOptions",
           challenge |-> a.challenge,
           timeout |-> a.timeout,
           rp_id |-> a.rp_id,
           allow_credentials |-> a.allow_credentials,
           user_verification |-> a.user_verification,
           extensions |-> a.extensions]

PublicKeyCredentialRequestOptions(kw) ==
  LET a == Bind({"challenge"},
                [timeout |-> None, rp_id |-> None, extensions |-> None,
                 allow_credentials |-> None,
                 user_verification |->
                   Member("UserVerificationRequirement", "PREFERRED")], kw)
  IN IF IsRaise(a) THEN a
     ELSE [py |-> "PublicKeyCredentialRequestOptions",
           challenge |-> a.challenge,
           timeout |-> a.timeout,
           rp_id |-> a.rp_id,
           allow_credentials |-> a.allow_credentials,
           user_verification |-> a.user_verification,
           extensions |-> a.extensions]

CredentialRequestOptions(kw) ==
  LET a == Bind({"public_key"},
                [mediation |->
                   Member("CredentialMediationRequirement", "OPTIONAL")], kw)
  IN IF IsRaise(a) THEN a
     ELSE [py |-> "CredentialRequestOptions",
           mediation |-> a.mediation,
           public_key |-> a.public_key]

TokenBinding(kw) ==
  LET a == Bind({"status"}, [id |-> None], kw)
  IN IF IsRaise(a) THEN a
     ELSE [py |-> "TokenBinding", status |-> a.status, id |-> a.id]

\* The nine optional keyword-only parameters of both extension records.
ExtensionDefaults ==
  [appid |-> None, tx_auth_simple |-> None, tx_auth_generic |-> None,
   authn_sel |-> None, exts |-> None, uvi |-> None, loc |-> None,
   uvm |-> None, biometric_perf_bounds |-> None]

AuthenticationExtensionsClientInputs(kw) ==
  LET a == Bind({}, ExtensionDefaults, kw)
  IN IF IsRaise(a) THEN a
     ELSE [py |-> "AuthenticationExtensionsClientInputs",
           appid |-> a.appid,
           tx_auth_simple |-> a.tx_auth_simple,
           tx_auth_generic |-> a.tx_auth_generic,
           authn_sel |-> a.authn_sel,
           exts |-> a.exts,
           uvi |-> a.uvi,
           loc |-> a.loc,
           uvm |-> a.uvm,
           biometric_perf_bounds |-> a.biometric_perf_bounds]

\* Variant: the outputs record keeps the generic transaction authorisation
\* under the identifier's own spelling.
AuthenticationExtensionsClientOutputs_camel_field(kw) ==
  LET a == Bind({}, ExtensionDefaults, kw)
  IN IF IsRaise(a) THEN a
     ELSE [py |-> "AuthenticationExtensionsClientOutputs",
           appid |-> a.appid,
           tx_auth_simple |-> a.tx_auth_simple,
           txAuthGeneric |-> a.tx_auth_generic,
           authn_sel |-> a.authn_sel,
           exts |-> a.exts,
           uvi |-> a.uvi,
           loc |-> a.loc,
           uvm |-> a.uvm,
           biometric_perf_bounds |-> a.biometric_perf_bounds]

AuthenticationExtensionsClientOutputs(kw) ==
  LET a == Bind({}, ExtensionDefaults, kw)
  IN IF IsRaise(a) THEN a
     ELSE [py |-> "AuthenticationExtensionsClientOutputs",
           appid |-> a.appid,
           tx_auth_simple |-> a.tx_auth_simple,
           tx_auth_generic |-> a.tx_auth_generic,
           authn_sel |-> a.authn_sel,
           exts |-> a.exts,
           uvi |-> a.uvi,
           loc |-> a.loc,
           uvm |-> a.uvm,
           biometric_perf_bounds |-> a.biometric_perf_bounds]

\* The attribute name a str spells: its characters in one string.
RECURSIVE Join(_)
Join(chars) ==
  IF chars = <<>> THEN "" ELSE Head(chars) \o Join(Tail(chars))

\* The initialiser of an attestation-statement class, of AuthenticatorData
\* and of AttestationObject, called with keyword arguments.
StatementParameters ==
  [AttestationStatement |-> {},
   NoneAttestationStatement |-> {},
   PackedAttestationStatement |-> {"alg", "sig"},
   PackedX509AttestationStatement |-> {"alg", "sig", "x5c"},
   PackedECDAAAttestationStatement |-> {"alg", "sig", "ecdaa_key_id"},
   TPMAttestationStatement |-> {"alg", "sig", "ver", "cert_info", "pub_area"},
   TPMX509AttestationStatement |->
     {"alg", "sig", "ver", "cert_info", "pub_area", "x5c"},
   TPMECDAAAttestationStatement |->
     {"alg", "sig", "ver", "cert_info", "pub_area", "ecdaa_key_id"},
   AndroidKeyAttestationStatement |-> {"alg", "sig", "x5c"},
   AndroidSafetyNetAttestationStatement |-> {"alg", "sig", "ver", "response"},
   FIDOU2FAttestationStatement |-> {"alg", "sig", "x5c"}]

NewStatement(cls, kw) ==
  LET a == IF StatementParameters[cls] = {}
           THEN Bind({}, [alg |-> None, sig |-> None], kw)
           ELSE Bind(StatementParameters[cls], NoFields, kw)
  IN IF IsRaise(a) THEN a
     ELSE CASE cls \in {"AttestationStatement", "NoneAttestationStatement"} ->
                 AttestationStatement(cls, a.alg, a.sig)
            [] cls = "PackedAttestationStatement" ->
                 PackedAttestationStatement(cls, a.alg, a.sig)
            [] cls = "PackedX509AttestationStatement" ->
                 PackedX509AttestationStatement(a.alg, a.sig, a.x5c)
            [] cls = "PackedECDAAAttestationStatement" ->
                 PackedECDAAAttestationStatement(a.alg, a.sig, a.ecdaa_key_id)
            [] cls = "TPMAttestationStatement" ->
                 TPMAttestationStatement(cls, a.alg, a.sig, a.ver, a.cert_info,
                                         a.pub_area)
            [] cls = "TPMX509AttestationStatement" ->
                 TPMX509AttestationStatement(a.alg, a.sig, a.ver, a.cert_info,
                                             a.pub_area, a.x5c)
            [] cls = "TPMECDAAAttestationStatement" ->
                 TPMECDAAAttestationStatement(a.alg, a.sig, a.ver, a.cert_info,
                                              a.pub_area, a.ecdaa_key_id)
            [] cls = "AndroidKeyAttestationStatement" ->
                 AndroidKeyAttestationStatement(a.alg, a.sig, a.x5c)
            [] cls = "AndroidSafetyNetAttestationStatement" ->
                 AndroidSafetyNetAttestationStatement(a.alg, a.sig, a.ver,
                                                      a.response)
            [] cls = "FIDOU2FAttestationStatement" ->
                 FIDOU2FAttestationStatement(a.alg, a.sig, a.x5c)

NewAuthenticatorData(kw) ==
  LET a == Bind({"rp_id_hash", "flags", "sign_count"},
                [attested_credential_data |-> None], kw)
  IN IF IsRaise(a) THEN a
     ELSE AuthenticatorData(a.rp_id_hash, a.flags, a.sign_count,
                            a.attested_credential_data)

NewAttestationObject(kw) ==
  LET a == Bind({"auth_data", "fmt", "att_stmt"}, NoFields, kw)
  IN IF IsRaise(a) THEN a
     ELSE AttestationObject(a.auth_data, a.fmt, a.att_stmt)

\* cls(**kw)
New(cls, kw) ==
  CASE cls = "PublicKeyCredentialRpEntity" -> PublicKeyCredentialRpEntity(kw)
    [] cls = "AuthenticatorSelectionCriteria" -> AuthenticatorSelectionCriteria(kw)
    [] cls = "PublicKeyCredentialCreationOptions" ->
         PublicKeyCredentialCreationOptions(kw)
    [] cls = "PublicKeyCredentialRequestOptions" ->
         PublicKeyCredentialRequestOptions(kw)
    [] cls = "CredentialRequestOptions" -> CredentialRequestOptions(kw)
    [] cls = "TokenBinding" -> TokenBinding(kw)
    [] cls = "AuthenticatorData" -> NewAuthenticatorData(kw)
    [] cls = "AttestationObject" -> NewAttestationObject(kw)
    [] cls \in DOMAIN StatementParameters -> NewStatement(cls, kw)

\* obj.field = value on an instance of a class of types.py: the classes
\* define neither __slots__ nor __setattr__, so the attribute is rebound.
SetAttribute(obj, field, value) ==
  [f \in DOMAIN obj \cup {field} |-> IF f = field THEN value ELSE obj[f]]

(***************************************************************************)
(* Single operations on the data model and on a registrar                  *)
(***************************************************************************)
\* The Python values a caller passes where the callee does not look at them.
ArgValues == {None, Bytes(<<1>>)}

InitTypes ==
  /\ arg_att_stmt = None
  /\ arg_att_obj = None
  /\ arg_auth_data = None
  /\ arg_client_data_hash = None
  /\ outcome = Pending
  /\ calls = <<>>
  /\ pc = "ready"
  /\ op = NoOp
  /\ ret = Pending
  /\ history = <<>>
  /\ registrar = CredentialsRegistrar

\* The caller makes the operation o, which returns, raises or builds r.
Call(o, r) ==
  /\ op' = o
  /\ ret' = r
  /\ pc' = "done"
  /\ UNCHANGED <<arg_att_stmt, arg_att_obj, arg_auth_data, arg_client_data_hash,
                 outcome, calls, history, registrar>>

RegisterCreationOptions ==
  /\ pc = "ready"
  /\ \E options \in ArgValues :
       Call([name |-> "register_creation_options", args |-> <<options>>],
            register_creation_options(CredentialsRegistrar, options))

RegisterRequestOptions ==
  /\ pc = "ready"
  /\ \E options \in ArgValues :
       Call([name |-> "register_request_options", args |-> <<options>>],
            register_request_options(CredentialsRegistrar, options))

RegisterCredentialCreation ==
  /\ pc = "ready"
  /\ \E credential \in ArgValues, att \in ArgValues, att_type \in ArgValues,
        user \in ArgValues, rp \in ArgValues, trusted_path \in ArgValues :
       Call([name |-> "register_credential_creation",
             args |-> <<credential, att, att_type, user, rp, trusted_path>>],
            register_credential_creation(CredentialsRegistrar, credential, att,
                                         att_type, user, rp, trusted_path))

RegisterCredentialRequest ==
  /\ pc = "ready"
  /\ \E credential \in ArgValues, authenticator_data \in ArgValues,
        user \in ArgValues, rp \in ArgValues :
       Call([name |-> "register_credential_request",
             args |-> <<credential, authenticator_data, user, rp>>],
            register_credential_request(CredentialsRegistrar, credential,
                                        authenticator_data, user, rp))

GetCredentialData ==
  /\ pc = "ready"
  /\ \E credential_id \in ArgValues :
       Call([name |-> "get_credential_data", args |-> <<credential_id>>],
            get_credential_data(CredentialsRegistrar, credential_id))

CheckUserOwnsCredential ==
  /\ pc = "ready"
  /\ \E user_handle \in ArgValues, credential_id \in ArgValues :
       Call([name |-> "check_user_owns_credential",
             args |-> <<user_handle, credential_id>>],
            check_user_owns_credential(CredentialsRegistrar, user_handle,
                                       credential_id))

\* The keys a caller looks up in the enumeration cls: the strings and the
\* codes of its members, their identifiers, and keys it does not have.
LookupKeys(cls) ==
  LET names == EnumMembers[cls].Name
      values == EnumMembers[cls].Value
  IN {PyStr(names[n]) : n \in DOMAIN names}
       \cup {PyStr(n) : n \in DOMAIN names}
       \cup {PyInt(values[n]) : n \in DOMAIN values}
       \cup {PyStr("ES1024"), PyInt(99), PyInt(0), PyFloat("1.5"), PyBool(TRUE), None}

\* Wraps what an expression evaluates to: a value is returned, an exception
\* propagates.
Eval(v) == IF IsRaise(v) THEN v ELSE Return(v)

EnumCall ==
  /\ pc = "ready"
  /\ \E cls \in DOMAIN EnumMembers :
       \E key \in LookupKeys(cls) :
         Call([name |-> "__call__", cls |-> cls, key |-> key],
              Eval(NameValueEnumsContainer_call(cls, key)))

EnumGetItem ==
  /\ pc = "ready"
  /\ \E cls \in DOMAIN EnumMembers :
       \E key \in LookupKeys(cls) :
         Call([name |-> "__getitem__", cls |-> cls, key |-> key],
              Eval(NameValueEnumsContainer_getitem(cls, key)))

ExtensionKey ==
  /\ pc = "ready"
  /\ \E n \in DOMAIN ExtensionIdentifier :
       LET self == Member("ExtensionIdentifier", n)
       IN Call([name |-> "key", self |-> self], Eval(ExtensionIdentifier_key(self)))

\* The flags bytes of an authenticator data.
FlagsBytes == 0..255

DecodeFlags ==
  /\ pc = "ready"
  /\ \E flags \in FlagsBytes :
       Call([name |-> "flags", flags |-> flags],
            Return([py |-> "set", items |-> FlagsSet(flags)]))

\* The keywords a caller passes to the initialiser of each class.
Keywords ==
  [PublicKeyCredentialRpEntity |-> {"name", "icon", "id"},
   AuthenticatorSelectionCriteria |->
     {"authenticator_attachment", "require_resident_key", "user_verification"},
   PublicKeyCredentialCreationOptions |->
     {"rp", "user", "challenge", "pub_key_cred_params", "timeout",
      "authenticator_selection", "extensions", "attestation",
      "exclude_credentials"},
   PublicKeyCredentialRequestOptions |->
     {"challenge", "timeout", "rp_id", "extensions", "allow_credentials",
      "user_verification"},
   CredentialRequestOptions |-> {"mediation", "public_key"},
   TokenBinding |-> {"status", "id"},
   AuthenticatorData |->
     {"rp_id_hash", "flags", "sign_count", "attested_credential_data"},
   AttestationObject |-> {"auth_data", "fmt", "att_stmt"}]
  @@ [cls \in DOMAIN StatementParameters |->
        IF StatementParameters[cls] = {} THEN {"alg", "sig"}
        ELSE StatementParameters[cls]]

\* The values a caller passes for a keyword.
FieldValues(cls) ==
  IF cls = "TokenBinding"
  THEN {None, PyStr("id"), Member("TokenBindingStatus", "SUPPORTED"),
        Member("TokenBindingStatus", "PRESENT")}
  ELSE {None, PyInt(1)}

Construct ==
  /\ pc = "ready"
  /\ \E cls \in DOMAIN Keywords :
       \E given \in SUBSET Keywords[cls] :
         \E kw \in [given -> FieldValues(cls)] :
           Call([name |-> "__init__", cls |-> cls, kw |-> kw], Eval(New(cls, kw)))

\* The extension records, by class name.
ExtensionRecord(cls, kw) ==
  IF cls = "AuthenticationExtensionsClientInputs"
  THEN AuthenticationExtensionsClientInputs(kw)
  ELSE AuthenticationExtensionsClientOutputs(kw)

\* getattr(cls(**{self.key: value}), self.key): an extension record built
\* with the keyword an extension identifier's key spells, and that field
\* read back.
ExtensionField ==
  /\ pc = "ready"
  /\ \E cls \in {"AuthenticationExtensionsClientInputs",
                  "AuthenticationExtensionsClientOutputs"} :
       \E n \in DOMAIN ExtensionIdentifier :
         \E value \in {None, PyBool(TRUE)} :
           LET self == Member("ExtensionIdentifier", n)
               key == Join(ExtensionIdentifier_key(self).chars)
           IN Call([name |-> "getattr", cls |-> cls, self |-> self,
                    value |-> value],
                   Eval(Attr(ExtensionRecord(cls, [f \in {key} |-> value]),
                             key)))

\* A value no initialiser was given.
Assigned == PyInt(2)

\* obj.field = Assigned, on the object just built.
SetAttr ==
  /\ pc = "done"
  /\ op.name = "__init__"
  /\ ret.py = "return"
  /\ \E field \in DOMAIN ret.value \ {"py"} :
       /\ op' = [name |-> "__setattr__", obj |-> ret.value, field |-> field,
                 value |-> Assigned]
       /\ ret' = Return(SetAttribute(ret.value, field, Assigned))
  /\ pc' = "assigned"
  /\ UNCHANGED <<arg_att_stmt, arg_att_obj, arg_auth_data, arg_client_data_hash,
                 outcome, calls, history, registrar>>

NextTypes ==
  \/ RegisterCreationOptions
  \/ RegisterRequestOptions
  \/ RegisterCredentialCreation
  \/ RegisterCredentialRequest
  \/ GetCredentialData
  \/ CheckUserOwnsCredential
  \/ EnumCall
  \/ EnumGetItem
  \/ ExtensionKey
  \/ DecodeFlags
  \/ ExtensionField
  \/ Construct
  \/ SetAttr

SpecTypes == InitTypes /\ [][NextTypes]_vars

(***************************************************************************)
(* Sequences of calls on a registrar                                       *)
(***************************************************************************)
\* An instance of a subclass of CredentialsRegistrar that defines the
\* operations in overrides and keeps what it registers in store.
Subclass(overrides, store) ==
  [py |-> "Subclass", overrides |-> overrides, store |-> store]

Overrides(self) ==
  IF self.py = "CredentialsRegistrar" THEN {} ELSE self.overrides

\* The one argument value of the calls of a sequence.
Credential == Bytes(<<1>>)

\* The operation `name` as CredentialsRegistrar defines it, applied to self.
Inherited(self, name) ==
  CASE name = "register_creation_options" ->
         register_creation_options(self, Credential)
    [] name = "register_request_options" ->
         register_request_options(self, Credential)
    [] name = "register_credential_creation" ->
         register_credential_creation(self, Credential, Credential,
                                      Credential, Credential, Credential,
                                      Credential)
    [] name = "register_credential_request" ->
         register_credential_request(self, Credential, Credential, Credential,
                                     Credential)
    [] name = "get_credential_data" -> get_credential_data(self, Credential)
    [] name = "check_user_owns_credential" ->
         check_user_owns_credential(self, Credential, Credential)

InitRegistrar ==
  /\ arg_att_stmt = None
  /\ arg_att_obj = None
  /\ arg_auth_data = None
  /\ arg_client_data_hash = None
  /\ outcome = Pending
  /\ calls = <<>>
  /\ pc = "ready"
  /\ op = NoOp
  /\ ret = Pending
  /\ history = <<>>
  /\ registrar \in {CredentialsRegistrar}
                    \cup {Subclass(o, {}) : o \in SUBSET RegistrarOperations}

\* self.name(...) where the class of self does not define name: the
\* definition of CredentialsRegistrar runs.
CallInherited ==
  /\ pc = "ready"
  /\ \E name \in RegistrarOperations \ Overrides(registrar) :
       /\ op' = [name |-> name]
       /\ ret' = Eval(Inherited(registrar, name))
  /\ pc' = "done"
  /\ UNCHANGED <<arg_att_stmt, arg_att_obj, arg_auth_data, arg_client_data_hash,
                 outcome, calls, history, registrar>>

\* self.name(...) where the class of self defines name: the subclass's code
\* runs, which returns and stores the credential, or fails and stores
\* nothing.
CallOverridden ==
  /\ pc = "ready"
  /\ \E name \in Overrides(registrar) :
       /\ op' = [name |-> name]
       /\ \/ /\ ret' = Return(None)
             /\ registrar' = [registrar EXCEPT !.store = @ \cup {Credential}]
          \/ /\ ret' = Raise("RegistrationError", "{}", name)
             /\ registrar' = registrar
  /\ pc' = "done"
  /\ UNCHANGED <<arg_att_stmt, arg_att_obj, arg_auth_data, arg_client_data_hash,
                 outcome, calls, history>>

\* The caller, a call having ended, goes on to the next one.
NextRegistrarCall ==
  /\ pc = "done"
  /\ Len(history) < MaxCalls
  /\ history' = Append(history, [name |-> op.name, ret |-> ret])
  /\ pc' = "ready"
  /\ UNCHANGED <<arg_att_stmt, arg_att_obj, arg_auth_data, arg_client_data_hash,
                 outcome, calls, op, ret, registrar>>

NextRegistrar == CallInherited \/ CallOverridden \/ NextRegistrarCall

SpecRegistrar == InitRegistrar /\ [][NextRegistrar]_vars

(***************************************************************************)
(* Properties of the registrar and of the data model                       *)
(***************************************************************************)
\* C11: every operation of an unimplemented registrar, whatever its
\* arguments, fails with UnimplementedError whose message names that very
\* operation; none returns.
C11_RegistrarUnimplemented ==
  op.name \in RegistrarOperations =>
    /\ IsRaise(ret)
    /\ ret.exc = "UnimplementedError"
    /\ ret.arg = op.name

C11_Witness ==
  /\ op.name = "check_user_owns_credential"
  /\ op.args = <<Bytes(<<1>>), Bytes(<<1>>)>>
  /\ IsRaise(ret)

IsLookup == op.name \in {"__call__", "__getitem__"}

\* The same lookup form as the last operation, with another key.
SameLookup(key) ==
  IF op.name = "__call__"
  THEN Eval(NameValueEnumsContainer_call(op.cls, key))
  ELSE Eval(NameValueEnumsContainer_getitem(op.cls, key))

\* The identifiers of the members of op.cls whose string or code is the key.
MembersOfKey ==
  LET names == EnumMembers[op.cls].Name
      values == EnumMembers[op.cls].Value
  IN IF op.key.py = "str"
     THEN {n \in DOMAIN names : names[n] = op.key.val}
     ELSE IF op.key.py = "int"
     THEN {n \in DOMAIN values : values[n] = op.key.val}
     ELSE {}

\* C12: a member looked up by its name string and the same member looked up
\* by its numeric code are one value: both lookups succeed and compare equal.
C12_NameAndCodeEqual ==
  (IsLookup /\ op.key.py = "str") =>
    \A n \in MembersOfKey :
      /\ ret.py = "return"
      /\ SameLookup(PyInt(EnumMembers[op.cls].Value[n])) = ret

\* C13: the call form and the subscript form both succeed on the name string
\* and on the numeric code of every member, and identify that member.
C13_AllFourLookups ==
  IsLookup =>
    \A n \in MembersOfKey :
      /\ ret.py = "return"
      /\ ret.value.name = n

\* A key no member is registered under: neither a member's string or
\* identifier nor a member's code.
InvalidKey ==
  /\ MembersOfKey = {}
  /\ op.key.py = "str" => op.key.val \notin DOMAIN EnumMembers[op.cls].Name

\* C14: every lookup with an invalid key, in the call form and in the
\* subscript form, fails with one and the same error kind, the invalid-key
\* error (KeyError).
C14_InvalidKeyError ==
  (IsLookup /\ InvalidKey) =>
    /\ IsRaise(ret)
    /\ ret.exc = "KeyError"

\* The number of internal uppercase letters among the first i of v.
Humps(v, i) == Cardinality({j \in 2..i : IsUpper(v[j])})

\* k is v in snake case: every character of v appears lowercased, in order,
\* moved right by the underscores before it; an underscore stands directly
\* before each internal uppercase letter and nowhere else.
IsSnakeCaseOf(k, v) ==
  /\ Len(k) = Len(v) + Humps(v, Len(v))
  /\ \A i \in 1..Len(v) :
       /\ k[i + Humps(v, i)] = Lower(v[i])
       /\ (i > 1 /\ IsUpper(v[i])) => k[i + Humps(v, i) - 1] = "_"

\* C15: the key of every ExtensionIdentifier member is its value in snake
\* case; txAuthGeneric gives tx_auth_generic, biometricPerfBounds gives
\* biometric_perf_bounds, and appid, exts, uvi, loc and uvm stay as they are.
C15_ExtensionKey ==
  op.name = "key" =>
    LET v == ExtensionIdentifier[op.self.name]
    IN /\ ret.py = "return"
       /\ ret.value.py = "str"
       /\ IsSnakeCaseOf(ret.value.chars, v)
       /\ op.self.name = "TX_AUTH_GENERIC" =>
            ret.value.chars = <<"t", "x", "_", "a", "u", "t", "h", "_", "g", "e", "n", "e",
               "r", "i", "c">>
       /\ op.self.name = "BIOMETRIC_PERF_BOUNDS" =>
            ret.value.chars = <<"b", "i", "o", "m", "e", "t", "r", "i", "c", "_", "p", "e",
               "r", "f", "_", "b", "o", "u", "n", "d", "s">>
       /\ op.self.name \in {"APPID", "EXTS", "UVI", "LOC", "UVM"} =>
            ret.value.chars = v

C15_Witness ==
  /\ op.name = "key"
  /\ op.self.name = "BIOMETRIC_PERF_BOUNDS"
  /\ ret.py = "return"
  /\ Len(ret.value.chars) = 21

\* Bit i of the non-negative integer n is set.
Bit(n, i) == (n \div 2^i) % 2 = 1

FlagNames == DOMAIN AuthenticatorDataFlag

\* The identifiers of the members the last operation found set.
Decoded == {f.name : f \in ret.value.items}

\* C16: the flag constants are 0x01, 0x02, 0x04, 0x38, 0x40 and 0x80, no two
\* share a bit and together they cover 0xFF, so a flags byte decodes to the
\* set of flags owning its set bits, each bit owned by exactly one flag;
\* 0x41 decodes to UP and AT only, 0x04 to UV only.
C16_FlagsCompose ==
  op.name = "flags" =>
    /\ AuthenticatorDataFlag =
         [UP |-> 1, RFU1 |-> 2, UV |-> 4, RFU2 |-> 56, AT |-> 64, ED |-> 128]
    /\ \A f \in FlagNames : \A g \in FlagNames \ {f} :
         BitAnd(AuthenticatorDataFlag[f], AuthenticatorDataFlag[g]) = 0
    /\ \A i \in 0..7 :
         Cardinality({f \in FlagNames : Bit(AuthenticatorDataFlag[f], i)}) = 1
    /\ \A f \in FlagNames : AuthenticatorDataFlag[f] \in 1..255
    /\ \A f \in FlagNames :
         f \in Decoded <=>
           \E i \in 0..7 : Bit(op.flags, i) /\ Bit(AuthenticatorDataFlag[f], i)
    /\ op.flags = 65 => Decoded = {"UP", "AT"}
    /\ op.flags = 4 => Decoded = {"UV"}

C16_Witness ==
  /\ op.name = "flags"
  /\ op.flags = 65
  /\ Decoded = {"UP", "AT"}

IsBuilt == op.name = "__init__" /\ ret.py = "return"

\* The literal defaults; every other field left out is absent (None).
DefaultOf(cls, field) ==
  CASE cls = "AuthenticatorSelectionCriteria" /\ field = "require_resident_key" ->
         PyBool(FALSE)
    [] cls = "AuthenticatorSelectionCriteria" /\ field = "user_verification" ->
         Member("UserVerificationRequirement", "PREFERRED")
    [] cls = "PublicKeyCredentialCreationOptions" /\ field = "attestation" ->
         Member("AttestationConveyancePreference", "NONE")
    [] cls = "PublicKeyCredentialRequestOptions" /\ field = "user_verification" ->
         Member("UserVerificationRequirement", "PREFERRED")
    [] cls = "CredentialRequestOptions" /\ field = "mediation" ->
         Member("CredentialMediationRequirement", "OPTIONAL")
    [] OTHER -> None

\* C17: a record that was built holds, under each field name, the value
\* supplied for that field, and for a field left out its literal default
\* (require_resident_key false, user_verification preferred, attestation
\* none, mediation optional) or else the absent value.
C17_ConstructionDefaults ==
  IsBuilt =>
    /\ DOMAIN ret.value = Keywords[op.cls] \cup {"py"}
    /\ \A f \in Keywords[op.cls] :
         ret.value[f] = IF f \in DOMAIN op.kw THEN op.kw[f]
                        ELSE DefaultOf(op.cls, f)

C17_Witness ==
  /\ IsBuilt
  /\ op.cls = "PublicKeyCredentialCreationOptions"
  /\ DOMAIN op.kw = {"rp", "user", "challenge", "pub_key_cred_params"}
  /\ ret.value.attestation = Member("AttestationConveyancePreference", "NONE")
  /\ ret.value.timeout = None
  /\ ret.value.rp = op.kw.rp

\* C18: assigning a field of a record that was built leaves the record as it
\* was.
C18_RecordsImmutable ==
  op.name = "__setattr__" => ret.value = op.obj

\* C19: a TokenBinding that was built with status present has an id.
C19_TokenBindingId ==
  (IsBuilt /\ op.cls = "TokenBinding"
     /\ ret.value.status = Member("TokenBindingStatus", "PRESENT"))
    => ret.value.id # None

\* C20: every attestation-statement class, given all its named fields, is
\* built and exposes each of them.
C20_StatementsConstruct ==
  (op.name = "__init__" /\ op.cls \in DOMAIN StatementParameters
     /\ DOMAIN op.kw = StatementParameters[op.cls])
    => /\ ret.py = "return"
       /\ \A f \in DOMAIN op.kw : ret.value[f] = op.kw[f]

\* The registry pairs (wire string, numeric code) of each dual enumeration.
RegistryPairs ==
  [COSEAlgorithmIdentifier |->
     {<<"ES256", -7>>, <<"ES384", -35>>, <<"ES512", -36>>, <<"EdDSA", -8>>},
   COSEKeyType |-> {<<"OKP", 1>>, <<"EC2", 2>>, <<"Symmetric", 4>>},
   COSEKeyOperation |->
     {<<"sign", 1>>, <<"verify", 2>>, <<"encrypt", 3>>, <<"decrypt", 4>>,
      <<"wrap key", 5>>, <<"unwrap key", 6>>, <<"derive key", 7>>,
      <<"derive bits", 8>>, <<"MAC create", 9>>, <<"MAC verify", 10>>},
   EC2KeyType |-> {<<"P-256", 1>>, <<"P-384", 2>>, <<"P-521", 3>>},
   OKPKeyType |-> {<<"Ed25519", 6>>, <<"Ed448", 7>>}]

Injective(f) == \A a \in DOMAIN f : \A b \in DOMAIN f : f[a] = f[b] => a = b

\* C25: the Name and the Value table of each dual enumeration have the same
\* member identifiers, no two members share a wire string or a code, the
\* pairs (wire string, code) are those of the registry, and a member the call
\* form returns for a wire string or a code is paired with it in the
\* registry.
C25_TablesMatchRegistry ==
  /\ DOMAIN EnumMembers = DOMAIN RegistryPairs
  /\ \A cls \in DOMAIN EnumMembers :
       LET names == EnumMembers[cls].Name
           values == EnumMembers[cls].Value
       IN /\ DOMAIN names = DOMAIN values
          /\ Injective(names)
          /\ Injective(values)
          /\ {<<names[n], values[n]>> : n \in DOMAIN names} = RegistryPairs[cls]
  /\ (op.name = "__call__" /\ ret.py = "return") =>
       LET n == ret.value.name
           names == EnumMembers[op.cls].Name
           values == EnumMembers[op.cls].Value
       IN /\ n \in DOMAIN names \cap DOMAIN values
          /\ <<names[n], values[n]>> \in RegistryPairs[op.cls]
          /\ IF op.key.py = "str" THEN names[n] = op.key.val
             ELSE values[n] = op.key.val

\* C25 happens: the call form returns the member EDDSA for the code -8.
C25_Witness ==
  /\ op.name = "__call__"
  /\ op.cls = "COSEAlgorithmIdentifier"
  /\ op.key = PyInt(-8)
  /\ ret = Return(Member("COSEAlgorithmIdentifier.Value", "EDDSA"))


\* The nine field names of the extension records.
ExtensionFieldNames ==
  {"appid", "tx_auth_simple", "tx_auth_generic", "authn_sel", "exts", "uvi",
   "loc", "uvm", "biometric_perf_bounds"}

\* The key of each extension identifier, as an attribute name.
ExtensionKeys ==
  [n \in DOMAIN ExtensionIdentifier |->
     Join(ExtensionIdentifier_key(Member("ExtensionIdentifier", n)).chars)]

\* C29: the keys of the nine extension identifiers are pairwise distinct and
\* are exactly the nine fields of the inputs record and of the outputs
\* record; a record built with the keyword an identifier's key spells gives
\* the value back under that key.
C29_ExtensionKeysAreFields ==
  /\ Cardinality(DOMAIN ExtensionKeys) = 9
  /\ Injective(ExtensionKeys)
  /\ {ExtensionKeys[n] : n \in DOMAIN ExtensionKeys} = ExtensionFieldNames
  /\ \A cls \in {"AuthenticationExtensionsClientInputs",
                 "AuthenticationExtensionsClientOutputs"} :
       DOMAIN ExtensionRecord(cls, NoFields) \ {"py"} = ExtensionFieldNames
  /\ op.name = "getattr" => ret = Return(op.value)

\* C29 happens: the outputs record built with tx_auth_generic, the key of
\* TX_AUTH_GENERIC, gives the value back.
C29_Witness ==
  /\ op.name = "getattr"
  /\ op.cls = "AuthenticationExtensionsClientOutputs"
  /\ op.self = Member("ExtensionIdentifier", "TX_AUTH_GENERIC")
  /\ op.value = PyBool(TRUE)
  /\ ret = Return(PyBool(TRUE))


\* The calls of a sequence on the registrar that have ended.
EndedRegistrarCalls ==
  {history[i] : i \in DOMAIN history}
    \cup (IF pc = "done" THEN {[name |-> op.name, ret |-> ret]} ELSE {})

\* C28: after any sequence of calls on a registrar that overrides a subset
\* of the six operations, every call of an operation it does not override
\* has failed with UnimplementedError naming that operation; on a registrar
\* that overrides none, no call has returned.
C28_RegistrarIndependent ==
  \A c \in EndedRegistrarCalls :
    /\ c.name \in RegistrarOperations
    /\ c.name \notin Overrides(registrar) =>
         c.ret = Raise("UnimplementedError", "Must implement {}", c.name)
    /\ Overrides(registrar) = {} => c.ret.py # "return"

\* C28 happens: on a registrar that overrides the two credential
\* registrations, a creation that returned and stored the credential and a
\* request that failed are followed by a lookup, which is unimplemented; and
\* the last call is the third.
C28_Witness ==
  /\ pc = "done"
  /\ Overrides(registrar)
       = {"register_credential_creation", "register_credential_request"}
  /\ registrar.store = {Credential}
  /\ history = <<[name |-> "register_credential_creation",
                  ret |-> Return(None)],
                 [name |-> "register_credential_request",
                  ret |-> Raise("RegistrationError", "{}",
                                "register_credential_request")]>>
  /\ op.name = "get_credential_data"
  /\ ret = Raise("UnimplementedError", "Must implement {}",
                 "get_credential_data")


====
